---- MODULE Spec2Model ----
(***************************************************************************)
(* Model of pkg/mimir/rules-handler.go: the RuleHandler that maps Grizzly  *)
(* resources of kind PrometheusRuleGroup onto the Mimir rules client       *)
(* (ListRules / CreateRules).                                              *)
(*                                                                         *)
(* Go strings that the code splits or concatenates (uids, namespaces,      *)
(* names) are sequences of one-character strings.  A Go map is a function  *)
(* whose DOMAIN is the set of keys present; a nil interface value is Null. *)
(***************************************************************************)
EXTENDS Naturals, Sequences, FiniteSets

VARIABLES
    resource,     \* the local resource handed to GetUID/GetRemote/Add/Update
    remote,       \* the rule-grouping set the Mimir client reports: namespace -> groups
    op,           \* the handler method that ran last
    arg,          \* the uid that the last lookup passed to getRemoteRuleGroup / GetByUID
    ret,          \* what the last method returned
    listCalls,    \* ListRules calls made by the last method
    createCalls,  \* CreateRules calls made by the last method
    clientErr,    \* the error the client returned to the last method ("nil": none)
    pushed        \* the grouping handed to the last CreateRules call (<<>>: none yet)

vars == <<resource, remote, op, arg, ret, listCalls, createCalls, clientErr, pushed>>

-----------------------------------------------------------------------------
(* Bounds of the model *)

\* most groups in the remote rule-grouping set
MaxGroups == 2
\* most rules in the local resource's spec "rules" sequence
MaxRules == 2

-----------------------------------------------------------------------------
(* Values *)

PrometheusRuleGroupKind == "PrometheusRuleGroup"
APIVersion == "grizzly.grafana.com/v1alpha1"

\* the nil interface value / nil error
Null == "<nil>"
NoErr == "nil"
ErrNotFound == "not found"
ErrMissingNamespace == "requires a namespace metadata entry"
\* errors the remote client can report
RemoteErrs == {"remote: 500", "remote: timeout"}

NsPool == { <<"a">>, <<"a", ".", "b">> }
NamePool == { <<"x">>, <<"b", ".", "x">> }

-----------------------------------------------------------------------------
(* Go maps *)

EmptyMap == [k \in {} |-> Null]

\* m[k]: the zero value (nil) when the key is absent
Get(m, k) == IF k \in DOMAIN m THEN m[k] ELSE Null

\* m[k] = v
Put(m, k, v) == [x \in (DOMAIN m) \cup {k} |-> IF x = k THEN v ELSE m[x]]

\* delete(m, k)
Delete(m, k) == [x \in (DOMAIN m) \ {k} |-> m[x]]

-----------------------------------------------------------------------------
(* Strings *)

\* fmt.Sprintf("%s.%s", a, b)
Sprintf(a, b) == a \o <<".">> \o b

\* index of the first "." of s, 0 when there is none
FirstDot(s) ==
    IF \E i \in 1..Len(s) : s[i] = "."
    THEN CHOOSE i \in 1..Len(s) : s[i] = "." /\ \A j \in 1..(i - 1) : s[j] # "."
    ELSE 0

\* SplitN as it would be if it always gave two parts (the rest empty without ".")
SplitNPadded(s) ==
    IF FirstDot(s) = 0
    THEN << s, << >> >>
    ELSE << SubSeq(s, 1, FirstDot(s) - 1), SubSeq(s, FirstDot(s) + 1, Len(s)) >>

\* strings.SplitN(s, ".", 2)
SplitN(s) ==
    IF FirstDot(s) = 0
    THEN << s >>
    ELSE << SubSeq(s, 1, FirstDot(s) - 1), SubSeq(s, FirstDot(s) + 1, Len(s)) >>

-----------------------------------------------------------------------------
(* grizzly.Resource *)

NewResource(apiVersion, kind, name, spec) ==
    [apiVersion |-> apiVersion, kind |-> kind, name |-> name,
     metadata |-> EmptyMap, spec |-> spec]

Name(r) == r.name
SpecOf(r) == r.spec
HasMetadata(r, k) == k \in DOMAIN r.metadata
GetMetadata(r, k) == IF k \in DOMAIN r.metadata THEN r.metadata[k] ELSE << >>
SetMetadata(r, k, v) == [r EXCEPT !.metadata = Put(r.metadata, k, v)]

\* the value an operation returns: error, *Resource (<<>>: nil), []string, string,
\* and whether it ended in a run-time panic instead of returning
Ret(err, res, ids, uid, panic) ==
    [err |-> err, res |-> res, ids |-> ids, uid |-> uid, panic |-> panic]
NoRet == Ret(NoErr, << >>, << >>, << >>, FALSE)

-----------------------------------------------------------------------------
(* RuleHandler *)

\* GetUID without its HasMetadata check
GetUIDUnchecked(r) ==
    Ret(NoErr, << >>, << >>, Sprintf(GetMetadata(r, "namespace"), Name(r)), FALSE)

\* GetUID: (uid, error)
GetUID(r) ==
    IF ~HasMetadata(r, "namespace")
    THEN Ret(ErrMissingNamespace, << >>, << >>, << >>, FALSE)
    ELSE Ret(NoErr, << >>, << >>, Sprintf(GetMetadata(r, "namespace"), Name(r)), FALSE)

\* the inner loop of getRemoteRuleGroup: the index of the first group of
\* grouping, from i on, whose Name is name; 0 when there is none
RECURSIVE FindGroup(_, _, _)
FindGroup(grouping, name, i) ==
    IF i > Len(grouping) THEN 0
    ELSE IF grouping[i].Name = name THEN i
    ELSE FindGroup(grouping, name, i + 1)

\* the resource getRemoteRuleGroup builds from a matching group
GroupResource(group, namespace) ==
    SetMetadata(
        NewResource(APIVersion, PrometheusRuleGroupKind, group.Name,
                    [rules |-> group.Rules]),
        "namespace", namespace)

\* the outer loop without its `key == namespace` test
RECURSIVE ScanAnyNamespace(_, _, _, _, _)
ScanAnyNamespace(groupings, order, k, namespace, name) ==
    IF k > Len(order) THEN Ret(ErrNotFound, << >>, << >>, << >>, FALSE)
    ELSE IF FindGroup(groupings[order[k]], name, 1) # 0
    THEN Ret(NoErr,
             << GroupResource(
                    groupings[order[k]][FindGroup(groupings[order[k]], name, 1)],
                    namespace) >>,
             << >>, << >>, FALSE)
    ELSE ScanAnyNamespace(groupings, order, k + 1, namespace, name)

\* the outer loop of getRemoteRuleGroup: range over the map in the iteration
\* order `order`, from its k-th key on; falls through to ErrNotFound
RECURSIVE ScanGroupings(_, _, _, _, _)
ScanGroupings(groupings, order, k, namespace, name) ==
    IF k > Len(order) THEN Ret(ErrNotFound, << >>, << >>, << >>, FALSE)
    ELSE IF order[k] = namespace /\ FindGroup(groupings[order[k]], name, 1) # 0
    THEN Ret(NoErr,
             << GroupResource(
                    groupings[order[k]][FindGroup(groupings[order[k]], name, 1)],
                    namespace) >>,
             << >>, << >>, FALSE)
    ELSE ScanGroupings(groupings, order, k + 1, namespace, name)

\* getRemoteRuleGroup reporting a failed ListRules as ErrNotFound
getRemoteRuleGroupSwallows(uid, groupings, err, order) ==
    IF Len(SplitN(uid)) < 2
    THEN [ret |-> Ret(NoErr, << >>, << >>, << >>, TRUE), calls |-> 0]
    ELSE IF err # NoErr
    THEN [ret |-> Ret(ErrNotFound, << >>, << >>, << >>, FALSE), calls |-> 1]
    ELSE [ret |-> ScanGroupings(groupings, order, 1, SplitN(uid)[1], SplitN(uid)[2]),
          calls |-> 1]

\* getRemoteRuleGroup(uid), given what ListRules answers (groupings, err) and the
\* order in which range visits the map.  calls: ListRules calls made.
getRemoteRuleGroup(uid, groupings, err, order) ==
    IF Len(SplitN(uid)) < 2
    THEN \* parts[1]: index out of range
         [ret |-> Ret(NoErr, << >>, << >>, << >>, TRUE), calls |-> 0]
    ELSE IF err # NoErr
    THEN [ret |-> Ret(err, << >>, << >>, << >>, FALSE), calls |-> 1]
    ELSE [ret |-> ScanGroupings(groupings, order, 1, SplitN(uid)[1], SplitN(uid)[2]),
          calls |-> 1]

\* the uid GetRemote looks up
GetRemoteUID(r) == Sprintf(GetMetadata(r, "namespace"), Name(r))

\* the ids with name and namespace the wrong way round
RECURSIVE GroupIDsSwapped(_, _, _)
GroupIDsSwapped(namespace, grouping, i) ==
    IF i > Len(grouping) THEN << >>
    ELSE << Sprintf(grouping[i].Name, namespace) >> \o GroupIDsSwapped(namespace, grouping, i + 1)

\* the ids of one namespace's groups, in order
RECURSIVE GroupIDs(_, _, _)
GroupIDs(namespace, grouping, i) ==
    IF i > Len(grouping) THEN << >>
    ELSE << Sprintf(namespace, grouping[i].Name) >> \o GroupIDs(namespace, grouping, i + 1)

\* the loops of getRemoteRuleGroupList over the map in iteration order `order`
RECURSIVE CollectIDs(_, _, _)
CollectIDs(groupings, order, k) ==
    IF k > Len(order) THEN << >>
    ELSE GroupIDs(order[k], groupings[order[k]], 1) \o CollectIDs(groupings, order, k + 1)

\* getRemoteRuleGroupList()
getRemoteRuleGroupList(groupings, err, order) ==
    IF err # NoErr
    THEN Ret(err, << >>, << >>, << >>, FALSE)
    ELSE Ret(NoErr, << >>, CollectIDs(groupings, order, 1), << >>, FALSE)

\* the renaming of "name" without the delete(rule, "name")
TranslateNameKeepsName(rule) ==
    IF Get(rule, "type") = "recording"
    THEN Put(rule, "record", Get(rule, "name"))
    ELSE IF Get(rule, "type") = "alerting"
    THEN Put(rule, "alert", Get(rule, "name"))
    ELSE rule

\* the body of writeRuleGroup's loop: the map surgery done on one rule
TranslateName(rule) ==
    IF Get(rule, "type") = "recording"
    THEN Delete(Put(rule, "record", Get(rule, "name")), "name")
    ELSE IF Get(rule, "type") = "alerting"
    THEN Delete(Put(rule, "alert", Get(rule, "name")), "name")
    ELSE rule

TranslateQuery(rule) ==
    IF Get(rule, "query") # Null
    THEN Delete(Put(rule, "expr", Get(rule, "query")), "query")
    ELSE rule

TranslateRule(rule) == TranslateQuery(TranslateName(rule))

\* writeRuleGroup's loop over the rules: the rule maps after the loop
RECURSIVE TranslateRules(_)
TranslateRules(rules) ==
    IF rules = << >> THEN << >>
    ELSE << TranslateRule(Head(rules)) >> \o TranslateRules(Tail(rules))

\* writeRuleGroup(resource): the grouping handed to CreateRules, and the resource
\* as the loop leaves it.  The rule maps are the resource's own (Spec() hands out
\* the stored maps and Go maps are references), so the surgery shows in both.
writeRuleGroup(r) ==
    [grouping |->
        [Namespace |-> GetMetadata(r, "namespace"),
         Groups |-> << [Name |-> Name(r), Rules |-> TranslateRules(SpecOf(r)["rules"])] >>],
     resource |->
        [r EXCEPT !.spec = Put(SpecOf(r), "rules", TranslateRules(SpecOf(r)["rules"]))]]

\* Add(resource)
AddWrite(r) == writeRuleGroup(r)

\* Update writing the existing resource instead of the new one
UpdateWritesExisting(existing, r) == writeRuleGroup(existing)

\* Update(existing, resource)
UpdateWrite(existing, r) == writeRuleGroup(r)

-----------------------------------------------------------------------------
(* Inputs *)

SeqsUpTo(S, n) == UNION { [1..k -> S] : k \in 0..n }

\* the orders in which range can visit the keys of a map
Orders(S) ==
    { s \in [1..Cardinality(S) -> S] : \A i, j \in 1..Cardinality(S) : i # j => s[i] # s[j] }

Absent == "<absent>"

\* a rule in the host's schema, with "type" t and "query" q (Absent: no such key)
RuleOf(t, q) ==
    LET r0 == [k \in {"name", "for"} |-> IF k = "name" THEN "X" ELSE "5m"]
        r1 == IF t = Absent THEN r0 ELSE Put(r0, "type", t)
    IN  IF q = Absent THEN r1 ELSE Put(r1, "query", q)

ExampleRule == [type |-> "alerting", name |-> "HighLatency", query |-> "up == 0"]
\* a rule that already carries the remote schema's keys
StaleRule ==
    [type |-> "recording", name |-> "Y", query |-> "q", record |-> "old", expr |-> "old"]

RulePool ==
    { RuleOf(t, q) : t \in {Absent, "recording", "alerting", "other"},
                     q \in {Absent, Null, "q"} }
    \cup {ExampleRule, StaleRule}

MetadataPool == {EmptyMap} \cup { [namespace |-> n] : n \in NsPool }

LocalResource(name, metadata, rules) ==
    [apiVersion |-> APIVersion, kind |-> PrometheusRuleGroupKind, name |-> name,
     metadata |-> metadata, spec |-> [rules |-> rules]]

\* a rule in the remote schema
WireRule == [record |-> "job:up:sum", expr |-> "sum(up)"]

\* the groups of namespace n among the entries es, in order; the i-th entry's
\* group carries i rules, so that groups can be told apart by their rule lists
RECURSIVE GroupsOf(_, _, _)
GroupsOf(es, n, i) ==
    IF i > Len(es) THEN << >>
    ELSE IF es[i][1] = n
    THEN << [Name |-> es[i][2], Rules |-> [j \in 1..i |-> WireRule]] >> \o GroupsOf(es, n, i + 1)
    ELSE GroupsOf(es, n, i + 1)

\* the rule-grouping set holding the entries es (<<namespace, group name>> pairs)
Grouping(es) == [n \in { es[i][1] : i \in DOMAIN es } |-> GroupsOf(es, n, 1)]

RemotePool == { Grouping(es) : es \in SeqsUpTo(NsPool \X NamePool, MaxGroups) }

\* the uids GetByUID is called with: the well-formed ones, and two without "."
UidPool ==
    { Sprintf(n, x) : n \in NsPool \cup {<<"c">>}, x \in NamePool \cup {<<"y">>} }
    \cup { << >>, <<"a">> }

ExistingPool ==
    { LocalResource(<<"x">>, [namespace |-> <<"a">>], << >>),
      LocalResource(<<"y">>, EmptyMap, << ExampleRule >>) }

ClientResults == {NoErr} \cup RemoteErrs

-----------------------------------------------------------------------------
(* The handler's methods as steps *)

\* a panic is not recovered: nothing runs after it
Running == ~ret.panic

DoGetUID ==
    /\ Running
    /\ op' = "GetUID"
    /\ ret' = GetUID(resource)
    /\ arg' = << >>
    /\ listCalls' = 0
    /\ createCalls' = 0
    /\ clientErr' = NoErr
    /\ UNCHANGED <<resource, remote, pushed>>

Lookup(name, uid) ==
    \E err \in ClientResults, order \in Orders(DOMAIN remote) :
        LET out == getRemoteRuleGroup(uid, remote, err, order) IN
        /\ op' = name
        /\ arg' = uid
        /\ ret' = out.ret
        /\ listCalls' = out.calls
        /\ createCalls' = 0
        /\ clientErr' = IF out.calls = 0 THEN NoErr ELSE err
        /\ UNCHANGED <<resource, remote, pushed>>

DoGetByUID ==
    /\ Running
    /\ \E uid \in UidPool : Lookup("GetByUID", uid)

DoGetRemote ==
    /\ Running
    /\ Lookup("GetRemote", GetRemoteUID(resource))

DoListRemote ==
    /\ Running
    /\ \E err \in ClientResults, order \in Orders(DOMAIN remote) :
        /\ op' = "ListRemote"
        /\ arg' = << >>
        /\ ret' = getRemoteRuleGroupList(remote, err, order)
        /\ listCalls' = 1
        /\ createCalls' = 0
        /\ clientErr' = err
        /\ UNCHANGED <<resource, remote, pushed>>

Write(name, out) ==
    \E err \in ClientResults :
        /\ op' = name
        /\ arg' = << >>
        /\ resource' = out.resource
        /\ pushed' = << out.grouping >>
        /\ ret' = Ret(err, << >>, << >>, << >>, FALSE)
        /\ listCalls' = 0
        /\ createCalls' = 1
        /\ clientErr' = err
        /\ UNCHANGED remote

DoAdd ==
    /\ Running
    /\ Write("Add", AddWrite(resource))

DoUpdate ==
    /\ Running
    /\ \E existing \in ExistingPool : Write("Update", UpdateWrite(existing, resource))

Start ==
    /\ op = "none"
    /\ arg = << >>
    /\ ret = NoRet
    /\ listCalls = 0
    /\ createCalls = 0
    /\ clientErr = NoErr
    /\ pushed = << >>

\* reads: every remote grouping set, a resource with any identity
Init ==
    /\ Start
    /\ remote \in RemotePool
    /\ resource \in { LocalResource(x, m, rs) :
                        x \in NamePool, m \in MetadataPool, rs \in {<< >>, << ExampleRule >>} }

Next == DoGetUID \/ DoGetByUID \/ DoGetRemote \/ DoListRemote \/ DoAdd \/ DoUpdate

Spec == Init /\ [][Next]_vars

\* writes: every rule list, against a remote that holds the resource or not
InitWrite ==
    /\ Start
    /\ remote \in { Grouping(<< >>), Grouping(<< <<<<"a">>, <<"x">>>> >>) }
    /\ resource \in { LocalResource(x, m, rs) :
                        x \in NamePool, m \in MetadataPool, rs \in SeqsUpTo(RulePool, MaxRules) }

NextWrite == DoAdd \/ DoUpdate

SpecWrite == InitWrite /\ [][NextWrite]_vars
-----------------------------------------------------------------------------
(* Properties *)

Writes == {"Add", "Update"}
Reads == {"GetByUID", "GetRemote", "ListRemote"}

HasDot(s) == \E i \in 1..Len(s) : s[i] = "."

\* the <<namespace, index>> places of the groups of G
Entries(G) == UNION { { <<n, i>> : i \in 1..Len(G[n]) } : n \in DOMAIN G }
EntryID(G, e) == e[1] \o <<".">> \o G[e[1]][e[2]].Name
Count(seq, v) == Cardinality({ i \in 1..Len(seq) : seq[i] = v })

C4_ListRemote ==
    (op = "ListRemote" /\ clientErr = NoErr) =>
        /\ ret.err = NoErr
        /\ Len(ret.ids) = Cardinality(Entries(remote))
        /\ \A i \in 1..Len(ret.ids) : \E e \in Entries(remote) : ret.ids[i] = EntryID(remote, e)
        /\ \A e \in Entries(remote) :
               Count(ret.ids, EntryID(remote, e))
                   = Cardinality({ f \in Entries(remote) : EntryID(remote, f) = EntryID(remote, e) })

\* C4's case: a listing of two groups that live in two namespaces
C4_Witness ==
    /\ op = "ListRemote"
    /\ Cardinality(DOMAIN remote) = 2
    /\ Len(ret.ids) = 2
    /\ ret.ids[1] # ret.ids[2]

\* C5: an error of the remote client is returned as it is, with no resource and
\* no id list, after the single client call that failed; a read makes at most
\* one ListRules call and a write exactly one CreateRules call; ErrNotFound is
\* returned only after a ListRules call that succeeded.
C5_ErrorsSurface ==
    /\ clientErr # NoErr =>
           /\ ret.err = clientErr
           /\ ret.res = << >>
           /\ ret.ids = << >>
           /\ ~ret.panic
           /\ listCalls + createCalls = 1
    /\ op \in Reads => (listCalls <= 1 /\ createCalls = 0)
    /\ op \in Writes => (listCalls = 0 /\ createCalls = 1)
    /\ ret.err = ErrNotFound => (listCalls = 1 /\ clientErr = NoErr)

\* C5's case: ListRules fails while looking up a group that is not remote
C5_Witness ==
    /\ op = "GetByUID"
    /\ arg = <<"c", ".", "y">>
    /\ clientErr = "remote: timeout"
    /\ ret.err = "remote: timeout"

\* C7: GetUID returns <namespace>.<name> and no error for a resource with a
\* "namespace" metadata entry, an error and an empty id for one without, and
\* calls no client; GetRemote of a resource with the entry looks up that id.
C7_GetUID ==
    /\ op = "GetUID" =>
           /\ listCalls = 0
           /\ createCalls = 0
           /\ IF "namespace" \in DOMAIN resource.metadata
              THEN /\ ret.err = NoErr
                   /\ ret.uid = resource.metadata["namespace"] \o <<".">> \o resource.name
              ELSE /\ ret.err # NoErr
                   /\ ret.uid = << >>
    /\ (op = "GetRemote" /\ "namespace" \in DOMAIN resource.metadata) =>
           arg = resource.metadata["namespace"] \o <<".">> \o resource.name

\* C7's case: the uid of a resource whose namespace holds a "."
C7_Witness ==
    /\ op = "GetUID"
    /\ resource.name = <<"x">>
    /\ ret.uid = <<"a", ".", "b", ".", "x">>

\* C8: GetByUID of a uid without "." ends in a panic, returns neither an error
\* nor a resource, and makes no ListRules call.
C8_MalformedUID ==
    (op = "GetByUID" /\ ~HasDot(arg)) =>
        /\ ret.panic
        /\ ret.err = NoErr
        /\ ret.res = << >>
        /\ listCalls = 0
        /\ clientErr = NoErr

\* C8's case: the uid "a" while the remote set has a namespace "a"
C8_Witness ==
    /\ op = "GetByUID"
    /\ arg = <<"a">>
    /\ <<"a">> \in DOMAIN remote
    /\ ret.panic

\* key k is as it was: present in both with one value, or in neither
SameKey(rule, out, k) ==
    /\ k \in DOMAIN rule <=> k \in DOMAIN out
    /\ k \in DOMAIN rule => out[k] = rule[k]

\* key `to` holds the old value of `from`, and `from` is gone
Renamed(rule, out, from, to) ==
    /\ to \in DOMAIN out
    /\ out[to] = (IF from \in DOMAIN rule THEN rule[from] ELSE Null)
    /\ from \notin DOMAIN out

IsType(rule, t) == "type" \in DOMAIN rule /\ rule["type"] = t

\* out is the rule pushed for rule
PushedFor(rule, out) ==
    /\ \A k \in (DOMAIN rule \cup DOMAIN out) \ {"name", "record", "alert", "query", "expr"} :
           SameKey(rule, out, k)
    /\ IsType(rule, "recording") =>
           (Renamed(rule, out, "name", "record") /\ SameKey(rule, out, "alert"))
    /\ IsType(rule, "alerting") =>
           (Renamed(rule, out, "name", "alert") /\ SameKey(rule, out, "record"))
    /\ (~IsType(rule, "recording") /\ ~IsType(rule, "alerting")) =>
           (SameKey(rule, out, "name") /\ SameKey(rule, out, "record")
                /\ SameKey(rule, out, "alert"))
    /\ IF "query" \in DOMAIN rule /\ rule["query"] # Null
       THEN Renamed(rule, out, "query", "expr")
       ELSE SameKey(rule, out, "query") /\ SameKey(rule, out, "expr")

\* C2: the rule Add/Update pushes for a rule of the resource has "name" moved to
\* "record" (type recording) or "alert" (type alerting) or left alone (any other
\* or no type), a non-null "query" moved to "expr", and every other key as it was.
C2_Translation ==
    [][ op' \in Writes =>
            /\ Len(pushed') = 1
            /\ Len(pushed'[1].Groups) = 1
            /\ Len(pushed'[1].Groups[1].Rules) = Len(resource.spec["rules"])
            /\ \A i \in 1..Len(resource.spec["rules"]) :
                   PushedFor(resource.spec["rules"][i], pushed'[1].Groups[1].Rules[i]) ]_vars

\* C2's case: the alerting rule HighLatency has been pushed
C2_Witness ==
    /\ op = "Add"
    /\ Len(pushed) = 1
    /\ pushed[1].Groups[1].Rules =
           << [type |-> "alerting", alert |-> "HighLatency", expr |-> "up == 0"] >>

\* C3: Add and Update each make one CreateRules call and no ListRules call, with
\* a grouping whose Namespace is the resource's "namespace" metadata and whose one
\* group, named after the resource, holds the translations of the resource's
\* rules in order; the method returns what CreateRules returned.
C3_SameWrite ==
    [][ op' \in Writes =>
            /\ createCalls' = 1
            /\ listCalls' = 0
            /\ ret'.err = clientErr'
            /\ Len(pushed') = 1
            /\ "namespace" \in DOMAIN resource.metadata =>
                   pushed'[1].Namespace = resource.metadata["namespace"]
            /\ pushed'[1].Groups =
                   << [Name |-> resource.name,
                       Rules |-> [i \in 1..Len(resource.spec["rules"]) |->
                                     TranslateRule(resource.spec["rules"][i])]] >> ]_vars

\* C3's case: an Update has pushed two different rules while the remote set
\* holds a group
C3_Witness ==
    /\ op = "Update"
    /\ remote # Grouping(<< >>)
    /\ Len(pushed) = 1
    /\ Len(pushed[1].Groups[1].Rules) = 2
    /\ pushed[1].Groups[1].Rules[1] # pushed[1].Groups[1].Rules[2]
    /\ "alert" \in DOMAIN pushed[1].Groups[1].Rules[1]

\* C6: Add and Update leave the resource they are given as it was.
C6_ResourceUntouched ==
    [][ op' \in Writes => resource' = resource ]_vars

\* C9: every push of the one resource hands CreateRules the grouping that the
\* push before it did.
C9_RepeatedPush ==
    [][ (op' \in Writes /\ pushed # << >>) => pushed' = pushed ]_vars

\* C10: an id that ListRemote returned resolves, through GetByUID against the
\* same remote set, to a resource built from a group that produced the id, and
\* GetUID of that resource is the id.
C10_ListThenLookup ==
    [][ ( /\ op = "ListRemote" /\ clientErr = NoErr
          /\ op' = "GetByUID" /\ clientErr' = NoErr
          /\ \E i \in 1..Len(ret.ids) : ret.ids[i] = arg' ) =>
            /\ ret'.err = NoErr
            /\ Len(ret'.res) = 1
            /\ \E e \in Entries(remote) :
                   /\ EntryID(remote, e) = arg'
                   /\ ret'.res[1].name = remote[e[1]][e[2]].Name
                   /\ ret'.res[1].metadata = [namespace |-> e[1]]
                   /\ ret'.res[1].spec["rules"] = remote[e[1]][e[2]].Rules
            /\ GetUID(ret'.res[1]).uid = arg' ]_vars

====
